---- MODULE Spec2Model ----
(***************************************************************************)
(* Model of fastapi_mock_datetime.middleware.mock_datetime_middleware.     *)
(*                                                                         *)
(* Each request is one coroutine running the middleware on a single event  *)
(* loop: the code between two awaits is one atomic step, and the awaited   *)
(* continuation (call_next) may read the clock, suspend, return a response *)
(* or raise.  time_machine.travel keeps one process-wide stack of          *)
(* coordinates: entering pushes, leaving pops the top, and a clock read    *)
(* answers from the top of the stack (the real clock when it is empty).    *)
(*                                                                         *)
(* Header values are sequences of one-character strings, parsed by         *)
(* FromIsoFormat as datetime.fromisoformat parses the extended calendar    *)
(* form YYYY-MM-DD[*HH[:MM[:SS]][Z|+HH[:MM]|-HH[:MM]]].  Instants are      *)
(* POSIX timestamps in whole seconds.                                      *)
(***************************************************************************)
EXTENDS Integers, Sequences, FiniteSets, TLC

VARIABLES
    pc,         \* pc[r]: "idle", "passthrough" (awaiting call_next, line 55),
                \*        "overridden" (awaiting call_next, line 61), "done"
    header,     \* header[r]: request.headers.get("X-Mock-Date")
    mockTime,   \* mockTime[r]: the datetime handed to time_machine.travel
    stack,      \* time_machine's process-wide stack of coordinates
    realTicks,  \* seconds the real clock has advanced since the start
    reads,      \* reads[r]: the clock reads r's running continuation has made
    calls,      \* calls[r]: number of times call_next was invoked for r
    enters,     \* enters[r]: number of travel scopes r entered
    exits,      \* exits[r]: number of travel scopes r left
    outcome,    \* outcome[r]: what the middleware gave back to its caller
    contResult, \* contResult[r]: what the continuation produced
    before,     \* before[r]: the ambient clock when r reached the with statement
    after       \* after[r]: the ambient clock when r handed control back

vars == <<pc, header, mockTime, stack, realTicks, reads, calls, enters, exits,
          outcome, contResult, before, after>>

----------------------------------------------------------------------------
\* Bounds of the model.

NumRequests == 2
MaxReads == 2
MaxTicks == 1

Requests == 1..NumRequests

----------------------------------------------------------------------------
\* Header values.

\* "2023-10-05T12:00:00+00:00"
HdrUtc ==
    <<"2","0","2","3","-","1","0","-","0","5","T","1","2",":","0","0",":","0","0","+","0","0",":","0","0">>
\* "2023-10-05T12:00:00"
HdrNaive ==
    <<"2","0","2","3","-","1","0","-","0","5","T","1","2",":","0","0",":","0","0">>
\* "2023-10-05T12:00:00+03:00"
HdrPlus3 ==
    <<"2","0","2","3","-","1","0","-","0","5","T","1","2",":","0","0",":","0","0","+","0","3",":","0","0">>
\* "invalid-date-format"
HdrInvalid ==
    <<"i","n","v","a","l","i","d","-","d","a","t","e","-","f","o","r","m","a","t">>
\* "2023-02-30T12:00:00"
HdrBadDay ==
    <<"2","0","2","3","-","0","2","-","3","0","T","1","2",":","0","0",":","0","0">>

Absent == [present |-> FALSE, value |-> <<>>]
Given(s) == [present |-> TRUE, value |-> s]

Headers ==
    {Absent, Given(<<>>), Given(HdrUtc), Given(HdrNaive), Given(HdrPlus3),
     Given(HdrInvalid), Given(HdrBadDay)}

----------------------------------------------------------------------------
\* datetime.fromisoformat

IsDigit(c) == c \in {"0","1","2","3","4","5","6","7","8","9"}

DigitVal(c) ==
    CASE c = "0" -> 0 [] c = "1" -> 1 [] c = "2" -> 2 [] c = "3" -> 3
      [] c = "4" -> 4 [] c = "5" -> 5 [] c = "6" -> 6 [] c = "7" -> 7
      [] c = "8" -> 8 [] c = "9" -> 9

AllDigits(s) == \A i \in 1..Len(s) : IsDigit(s[i])

RECURSIVE Num(_)
Num(s) ==
    IF s = <<>> THEN 0
    ELSE 10 * Num(SubSeq(s, 1, Len(s) - 1)) + DigitVal(s[Len(s)])

IsLeap(y) == (y % 4 = 0) /\ ((y % 100 # 0) \/ (y % 400 = 0))

DaysInMonth(y, m) ==
    IF m = 2 THEN (IF IsLeap(y) THEN 29 ELSE 28)
    ELSE IF m \in {4, 6, 9, 11} THEN 30 ELSE 31

Naive == [aware |-> FALSE, offset |-> 0]
Offset(minutes) == [aware |-> TRUE, offset |-> minutes]

NoDateTime ==
    [year |-> 0, month |-> 0, day |-> 0, hour |-> 0, minute |-> 0,
     second |-> 0, tz |-> Naive]

Invalid == [ok |-> FALSE, dt |-> NoDateTime]

\* the date part, "YYYY-MM-DD"
DateShape(d) ==
    /\ Len(d) = 10
    /\ AllDigits(SubSeq(d, 1, 4)) /\ d[5] = "-"
    /\ AllDigits(SubSeq(d, 6, 7)) /\ d[8] = "-"
    /\ AllDigits(SubSeq(d, 9, 10))

\* the clock part, "HH", "HH:MM" or "HH:MM:SS"
ClockShape(t) ==
    /\ Len(t) \in {2, 5, 8}
    /\ AllDigits(SubSeq(t, 1, 2))
    /\ Len(t) >= 5 => (t[3] = ":" /\ AllDigits(SubSeq(t, 4, 5)))
    /\ Len(t) >= 8 => (t[6] = ":" /\ AllDigits(SubSeq(t, 7, 8)))

ClockField(t, k) ==
    IF Len(t) >= 3 * k - 1 THEN Num(SubSeq(t, 3 * k - 2, 3 * k - 1)) ELSE 0

\* position of the offset suffix in the time string, 0 when it has none
TzPos(t) ==
    LET hits == {i \in 1..Len(t) : t[i] \in {"+", "-", "Z"}}
    IN  IF hits = {} THEN 0 ELSE CHOOSE i \in hits : \A j \in hits : i <= j

\* the offset suffix: "Z", or a sign followed by "HH" or "HH:MM"
TzShape(z) ==
    \/ z = <<"Z">>
    \/ /\ Len(z) \in {3, 6}
       /\ z[1] \in {"+", "-"}
       /\ AllDigits(SubSeq(z, 2, 3))
       /\ Len(z) = 6 => (z[4] = ":" /\ AllDigits(SubSeq(z, 5, 6)))

TzMinutes(z) ==
    IF z = <<"Z">> THEN 0
    ELSE LET mag == 60 * Num(SubSeq(z, 2, 3))
                    + (IF Len(z) = 6 THEN Num(SubSeq(z, 5, 6)) ELSE 0)
         IN  IF z[1] = "-" THEN 0 - mag ELSE mag

FromIsoFormat(s) ==
    IF Len(s) < 10 \/ ~DateShape(SubSeq(s, 1, 10)) THEN Invalid
    ELSE
      LET y  == Num(SubSeq(s, 1, 4))
          mo == Num(SubSeq(s, 6, 7))
          d  == Num(SubSeq(s, 9, 10))
          t  == SubSeq(s, 12, Len(s))
          p  == TzPos(t)
          clock == IF p = 0 THEN t ELSE SubSeq(t, 1, p - 1)
          zone  == IF p = 0 THEN <<>> ELSE SubSeq(t, p, Len(t))
          dateOk == y >= 1 /\ mo \in 1..12 /\ d >= 1 /\ d <= DaysInMonth(y, mo)
      IN
        IF ~dateOk THEN Invalid
        ELSE IF Len(s) = 10 THEN
          [ok |-> TRUE,
           dt |-> [year |-> y, month |-> mo, day |-> d, hour |-> 0,
                   minute |-> 0, second |-> 0, tz |-> Naive]]
        ELSE IF ~ClockShape(clock) THEN Invalid
        ELSE IF p # 0 /\ ~TzShape(zone) THEN Invalid
        ELSE
          LET h  == ClockField(clock, 1)
              mi == ClockField(clock, 2)
              se == ClockField(clock, 3)
              off == IF p = 0 THEN 0 ELSE TzMinutes(zone)
          IN
            IF h > 23 \/ mi > 59 \/ se > 59 THEN Invalid
            ELSE IF off >= 1440 \/ off <= 0 - 1440 THEN Invalid
            ELSE
              [ok |-> TRUE,
               dt |-> [year |-> y, month |-> mo, day |-> d, hour |-> h,
                       minute |-> mi, second |-> se,
                       tz |-> IF p = 0 THEN Naive ELSE Offset(off)]]

----------------------------------------------------------------------------
\* Instants.

\* days from 1970-01-01 to the civil date y-m-d
DaysFromCivil(y, m, d) ==
    LET yy  == IF m <= 2 THEN y - 1 ELSE y
        era == yy \div 400
        yoe == yy - era * 400
        mp  == IF m > 2 THEN m - 3 ELSE m + 9
        doy == (153 * mp + 2) \div 5 + d - 1
        doe == yoe * 365 + yoe \div 4 - yoe \div 100 + doy
    IN  era * 146097 + doe - 719468

\* the timestamp time_machine derives from its destination; a naive
\* destination is read as UTC
Timestamp(dt) ==
    DaysFromCivil(dt.year, dt.month, dt.day) * 86400
    + dt.hour * 3600 + dt.minute * 60 + dt.second
    - dt.tz.offset * 60

\* the real clock when the process starts
RealEpoch == 1793000000

Real == RealEpoch + realTicks

----------------------------------------------------------------------------
\* time_machine.travel as the middleware uses it.

\* a travel that lets time run on from the destination
TickFlagOn == TRUE

\* travel(..., tick=False)
TickFlag == FALSE

\* the coordinates travel() pushes for destination dt; the real time of the
\* push matters to a ticking travel only
Coordinates(dt) ==
    [dest |-> Timestamp(dt), tick |-> TickFlag,
     start |-> IF TickFlag THEN Real ELSE 0]

\* what a clock read answers under coordinates c
CoordinatesTime(c) == IF c.tick THEN c.dest + (Real - c.start) ELSE c.dest

\* entering the with block: push on the process-wide stack
EnterTravel(stk, dt) == Append(stk, Coordinates(dt))

\* a scope exit that leaves the coordinates on the stack
ExitTravelNoPop(stk) == stk

\* leaving the with block: pop the top of the stack
ExitTravel(stk) == SubSeq(stk, 1, Len(stk) - 1)

\* an exception that skips the release
ExitOnRaiseSkipped(stk) == stk

\* an exception leaving the with block runs the same exit
ExitOnRaise(stk) == ExitTravel(stk)

\* what decides the answer of a clock read: the top coordinates, or nothing
\* (the real clock) when no travel is active
Ambient(stk) == IF stk = <<>> THEN <<>> ELSE <<stk[Len(stk)]>>

\* datetime.now(timezone.utc) as the running code sees it
Now == IF stack = <<>> THEN Real ELSE CoordinatesTime(stack[Len(stack)])

----------------------------------------------------------------------------
\* Responses and exceptions.

Status422 == 422

Response(status, detail, content) ==
    [status |-> status, body |-> [detail |-> detail, content |-> content]]

\* the responses a continuation may produce
ContResponses ==
    {Response(200, <<>>, "current_time"), Response(404, <<>>, "Not Found")}

\* the exceptions a continuation may raise
Exceptions == {"ValueError", "RuntimeError"}

NoResponse == Response(0, <<>>, "")

Nothing == [kind |-> "none", response |-> NoResponse, exc |-> ""]
Returned(resp) == [kind |-> "response", response |-> resp, exc |-> ""]
Raised(exc) == [kind |-> "raise", response |-> NoResponse, exc |-> exc]

----------------------------------------------------------------------------
\* mock_datetime_middleware

\* `mock_time_header is None`: only a missing header
IsFalsyNoneOnly(h) == ~h.present

\* `not mock_time_header`: the header is missing or is the empty string
IsFalsy(h) == ~h.present \/ h.value = <<>>

\* no zone attached to a naive value
AttachUtcSkipped(dt) == dt

\* the zone replaced whether or not the value carries one
AttachUtcAlways(dt) == [dt EXCEPT !.tz = Offset(0)]

\* `if mock_time.tzinfo is None: mock_time = mock_time.replace(tzinfo=utc)`
AttachUtc(dt) == IF ~dt.tz.aware THEN [dt EXCEPT !.tz = Offset(0)] ELSE dt

\* no except clause
CaughtNothing(exc) == FALSE

\* `except ValueError`
Caught(exc) == exc = "ValueError"

\* the JSONResponse of the except branch
ErrorResponse(h) ==
    Response(Status422,
             <<[type  |-> "value_error",
                loc   |-> <<"header", "x-mock-date">>,
                msg   |-> "Invalid datetime format. Use ISO format: YYYY-MM-DDTHH:MM:SS[±HH:MM]",
                input |-> h.value]>>,
             "")

\* what leaves the try statement when exc is raised inside it
TryOutcome(exc, h) == IF Caught(exc) THEN Returned(ErrorResponse(h)) ELSE Raised(exc)

InFlight(r) == pc[r] \in {"passthrough", "overridden"}

\* number of clock reads made so far, over all requests
RECURSIVE ReadsUpTo(_)
ReadsUpTo(n) == IF n = 0 THEN 0 ELSE ReadsUpTo(n - 1) + Len(reads[n])
TotalReads == ReadsUpTo(NumRequests)

Init ==
    /\ pc = [r \in Requests |-> "idle"]
    /\ header = [r \in Requests |-> Absent]
    /\ mockTime = [r \in Requests |-> NoDateTime]
    /\ stack = <<>>
    /\ realTicks = 0
    /\ reads = [r \in Requests |-> <<>>]
    /\ calls = [r \in Requests |-> 0]
    /\ enters = [r \in Requests |-> 0]
    /\ exits = [r \in Requests |-> 0]
    /\ outcome = [r \in Requests |-> Nothing]
    /\ contResult = [r \in Requests |-> Nothing]
    /\ before = [r \in Requests |-> <<>>]
    /\ after = [r \in Requests |-> <<>>]

\* The middleware runs from its entry to its first await (or to its return
\* when the header does not parse).  Requests are numbered in the order in
\* which they arrive.
Start(r, h) ==
    /\ pc[r] = "idle"
    /\ \A o \in Requests : o < r => pc[o] # "idle"
    /\ header' = [header EXCEPT ![r] = h]
    /\ IF IsFalsy(h) THEN
         /\ pc' = [pc EXCEPT ![r] = "passthrough"]
         /\ calls' = [calls EXCEPT ![r] = @ + 1]
         /\ UNCHANGED <<mockTime, stack, enters, outcome, before>>
       ELSE IF FromIsoFormat(h.value).ok THEN
         LET mock_time == AttachUtc(FromIsoFormat(h.value).dt) IN
         /\ mockTime' = [mockTime EXCEPT ![r] = mock_time]
         /\ before' = [before EXCEPT ![r] = Ambient(stack)]
         /\ stack' = EnterTravel(stack, mock_time)
         /\ enters' = [enters EXCEPT ![r] = @ + 1]
         /\ calls' = [calls EXCEPT ![r] = @ + 1]
         /\ pc' = [pc EXCEPT ![r] = "overridden"]
         /\ UNCHANGED outcome
       ELSE
         /\ outcome' = [outcome EXCEPT ![r] = TryOutcome("ValueError", h)]
         /\ pc' = [pc EXCEPT ![r] = "done"]
         /\ UNCHANGED <<mockTime, stack, enters, calls, before>>
    /\ UNCHANGED <<realTicks, reads, exits, contResult, after>>

\* The continuation reads the clock, at any point of its run.
ContRead(r) ==
    /\ InFlight(r)
    /\ TotalReads < MaxReads
    /\ reads' = [reads EXCEPT ![r] = Append(@, Now)]
    /\ UNCHANGED <<pc, header, mockTime, stack, realTicks, calls, enters,
                   exits, outcome, contResult, before, after>>

\* The continuation returns resp (its reads end with it) and the middleware
\* returns.
ContReturn(r, resp) ==
    /\ InFlight(r)
    /\ contResult' = [contResult EXCEPT ![r] = Returned(resp)]
    /\ outcome' = [outcome EXCEPT ![r] = Returned(resp)]
    /\ IF pc[r] = "overridden" THEN
         /\ stack' = ExitTravel(stack)
         /\ exits' = [exits EXCEPT ![r] = @ + 1]
         /\ after' = [after EXCEPT ![r] = Ambient(stack')]
       ELSE UNCHANGED <<stack, exits, after>>
    /\ pc' = [pc EXCEPT ![r] = "done"]
    /\ reads' = [reads EXCEPT ![r] = <<>>]
    /\ UNCHANGED <<header, mockTime, realTicks, calls, enters, before>>

\* The continuation raises exc: outside the try on the pass-through path,
\* inside the with block and the try on the overridden path.
ContRaise(r, exc) ==
    /\ InFlight(r)
    /\ contResult' = [contResult EXCEPT ![r] = Raised(exc)]
    /\ IF pc[r] = "overridden" THEN
         /\ stack' = ExitOnRaise(stack)
         /\ exits' = [exits EXCEPT ![r] = @ + 1]
         /\ after' = [after EXCEPT ![r] = Ambient(stack')]
         /\ outcome' = [outcome EXCEPT ![r] = TryOutcome(exc, header[r])]
       ELSE
         /\ outcome' = [outcome EXCEPT ![r] = Raised(exc)]
         /\ UNCHANGED <<stack, exits, after>>
    /\ pc' = [pc EXCEPT ![r] = "done"]
    /\ reads' = [reads EXCEPT ![r] = <<>>]
    /\ UNCHANGED <<header, mockTime, realTicks, calls, enters, before>>

\* The real clock advances.
Tick ==
    /\ realTicks < MaxTicks
    /\ realTicks' = realTicks + 1
    /\ UNCHANGED <<pc, header, mockTime, stack, reads, calls, enters, exits,
                   outcome, contResult, before, after>>

Next ==
    \/ \E r \in Requests, h \in Headers : Start(r, h)
    \/ \E r \in Requests : ContRead(r)
    \/ \E r \in Requests, resp \in ContResponses : ContReturn(r, resp)
    \/ \E r \in Requests, exc \in Exceptions : ContRaise(r, exc)
    \/ Tick

Spec == Init /\ [][Next]_vars

\* Requests handled one after another: a request starts only when no other
\* request is in flight.
StartAlone(r, h) ==
    /\ \A o \in Requests \ {r} : ~InFlight(o)
    /\ Start(r, h)

NextSeq ==
    \/ \E r \in Requests, h \in Headers : StartAlone(r, h)
    \/ \E r \in Requests : ContRead(r)
    \/ \E r \in Requests, resp \in ContResponses : ContReturn(r, resp)
    \/ \E r \in Requests, exc \in Exceptions : ContRaise(r, exc)
    \/ Tick

SeqSpec == Init /\ [][NextSeq]_vars

TypeOK ==
    /\ pc \in [Requests -> {"idle", "passthrough", "overridden", "done"}]
    /\ header \in [Requests -> Headers]
    /\ realTicks \in 0..MaxTicks
    /\ TotalReads <= MaxReads

----------------------------------------------------------------------------
\* Vocabulary of the properties.

\* the header of r is missing or empty
NoHeader(r) == ~header[r].present \/ header[r].value = <<>>

\* what each header value parses to
ParsedHeaders == [h \in Headers |-> FromIsoFormat(h.value)]
Parsed(r) == ParsedHeaders[header[r]]

\* the header of r is a non-empty string that parses
ValidHeader(r) == ~NoHeader(r) /\ Parsed(r).ok

\* the header of r is a non-empty string that does not parse
BadHeader(r) == ~NoHeader(r) /\ ~Parsed(r).ok

\* r's header parsed and carries a UTC offset
AwareHeader(r) == ValidHeader(r) /\ Parsed(r).dt.tz.aware

\* r's header parsed and carries no UTC offset
NaiveHeader(r) == ValidHeader(r) /\ ~Parsed(r).dt.tz.aware

\* the instant r's header names: its date and time at its own offset, or at
\* offset zero when it has none
OwnInstant(r) ==
    LET dt == Parsed(r).dt
    IN  DaysFromCivil(dt.year, dt.month, dt.day) * 86400
        + dt.hour * 3600 + dt.minute * 60 + dt.second
        - (IF dt.tz.aware THEN dt.tz.offset * 60 ELSE 0)

\* t is a reading of the real clock: not before the process started and not
\* after the present
RealReading(t) == t >= RealEpoch /\ t <= Real

\* every clock read r's continuation has made shows r's own clock
ReadsOwnClock(r) ==
    \A i \in 1..Len(reads[r]) :
        IF ValidHeader(r) THEN reads[r][i] = OwnInstant(r)
        ELSE RealReading(reads[r][i])

Started(r) == pc[r] # "idle"
Done(r) == pc[r] = "done"

----------------------------------------------------------------------------
\* C1: with two requests in flight at once, every clock read of a request's
\* continuation shows that request's own clock: its own parsed instant, or
\* the real clock when it has no header; never the other request's instant.
ConcurrentIsolation ==
    \A r \in Requests : InFlight(r) => ReadsOwnClock(r)

\* C2: an exception raised by the continuation leaves the middleware
\* unchanged, whatever its kind and on both paths; the middleware never
\* answers a continuation exception with a response of its own.
ContinuationExceptionPropagates ==
    \A r \in Requests :
        (Done(r) /\ contResult[r].kind = "raise") => outcome[r] = contResult[r]

\* C3: a header that is present but does not parse is answered with the 422
\* response carrying the header string as "input"; the continuation is not
\* invoked, no override is begun and no exception escapes.
InvalidHeaderRejected ==
    \A r \in Requests :
        (Started(r) /\ BadHeader(r)) =>
            /\ Done(r)
            /\ outcome[r].kind = "response"
            /\ outcome[r].response.status = 422
            /\ outcome[r].response.body.detail =
                 <<[type  |-> "value_error",
                    loc   |-> <<"header", "x-mock-date">>,
                    msg   |-> "Invalid datetime format. Use ISO format: YYYY-MM-DDTHH:MM:SS[±HH:MM]",
                    input |-> header[r].value]>>
            /\ calls[r] = 0
            /\ enters[r] = 0 /\ exits[r] = 0
            /\ contResult[r] = Nothing

\* a malformed string and an impossible calendar date, both answered 422
InvalidHeaderRejectedWitness ==
    \E r, o \in Requests :
        /\ Done(r) /\ Done(o)
        /\ header[r] = Given(HdrInvalid) /\ header[o] = Given(HdrBadDay)
        /\ outcome[r].response.status = 422
        /\ outcome[r].response.body.detail[1].input = HdrInvalid
        /\ outcome[o].response.status = 422
        /\ outcome[o].response.body.detail[1].input = HdrBadDay

\* C4: on the overridden path the override is released exactly once, whether
\* the continuation returned or raised, and the clock behaviour in effect
\* before the request is back in effect when control returns to the caller.
OverrideReleasedAndRestored ==
    \A r \in Requests :
        (Done(r) /\ enters[r] = 1) => (exits[r] = 1 /\ after[r] = before[r])

\* C5: a request whose header is absent or empty invokes the continuation
\* exactly once, gives back what the continuation produced, and neither
\* begins nor ends a clock override.
PassThrough ==
    \A r \in Requests :
        (Started(r) /\ NoHeader(r)) =>
            /\ calls[r] = 1
            /\ enters[r] = 0 /\ exits[r] = 0
            /\ pc[r] # "overridden"
            /\ Done(r) => outcome[r] = contResult[r]
            /\ Done(r) => outcome[r].kind # "none"

PassThroughWitness ==
    \E r \in Requests :
        /\ Done(r)
        /\ header[r] = Given(<<>>)
        /\ outcome[r].kind = "response"
        /\ outcome[r].response.status = 200
        /\ \E o \in Requests : pc[o] = "overridden"

\* C6: with no other request in flight, a request whose header parses and
\* carries an offset invokes the continuation exactly once, every clock read
\* of the continuation is the parsed instant at the offset given, and the
\* continuation's response is returned untouched.
AwareHeaderObserved ==
    \A r \in Requests :
        (Started(r) /\ AwareHeader(r)) =>
            /\ calls[r] = 1
            /\ \A i \in 1..Len(reads[r]) : reads[r][i] = OwnInstant(r)
            /\ (Done(r) /\ contResult[r].kind = "response") =>
                   outcome[r] = contResult[r]

\* "2023-10-05T12:00:00+03:00" is 09:00:00 UTC of that day
AwareHeaderObservedWitness ==
    \E r \in Requests :
        /\ pc[r] = "overridden"
        /\ header[r] = Given(HdrPlus3)
        /\ reads[r] = <<1696496400, 1696496400>>
        /\ realTicks = 1

\* C7: a header that parses without an offset is handed to the override as
\* the same date and time at offset zero; the value handed to the override
\* is always timezone-aware.
NaiveIsUtc ==
    \A r \in Requests :
        enters[r] = 1 =>
            /\ mockTime[r].tz.aware
            /\ NaiveHeader(r) =>
                 mockTime[r] = [Parsed(r).dt EXCEPT !.tz = Offset(0)]

\* "2023-10-05T12:00:00" travels to 2023-10-05T12:00:00+00:00
NaiveIsUtcWitness ==
    \E r \in Requests :
        /\ pc[r] = "overridden"
        /\ header[r] = Given(HdrNaive)
        /\ mockTime[r].hour = 12 /\ mockTime[r].tz = Offset(0)
        /\ reads[r] = <<1696507200>>

\* C8: with requests handled one after another, a request that starts after
\* a request with a valid header has returned shows its own clock on every
\* read: the real clock when it has no header, its own instant when it has a
\* valid one; never the earlier request's instant.
SequentialIsolation ==
    \A r \in Requests :
        (InFlight(r) /\ \E o \in Requests : o < r /\ Done(o) /\ enters[o] = 1)
            => ReadsOwnClock(r)

SequentialIsolationWitness ==
    /\ Done(1) /\ header[1] = Given(HdrUtc) /\ exits[1] = 1
    /\ pc[2] = "passthrough"
    /\ reads[2] = <<RealEpoch + 1>>

\* C9: within one overridden request with no other request in flight, any
\* two clock reads of the continuation are the same instant.
NoTickProgression ==
    \A r \in Requests :
        pc[r] = "overridden" =>
            \A i, j \in 1..Len(reads[r]) : reads[r][i] = reads[r][j]

NoTickProgressionWitness ==
    \E r \in Requests :
        /\ pc[r] = "overridden"
        /\ Len(reads[r]) = 2
        /\ realTicks = 1

\* C10: whenever no request is in flight, no clock override is active,
\* whatever the headers, the order in which overlapping requests completed
\* and whether each continuation returned or raised.
NoLeakAtQuiescence ==
    (\A r \in Requests : ~InFlight(r)) => stack = <<>>

\* two overlapping overrides, the first to arrive also the first to leave,
\* the second ended by an exception
NoLeakAtQuiescenceWitness ==
    /\ Done(1) /\ Done(2)
    /\ enters[1] = 1 /\ enters[2] = 1
    /\ after[1] # <<>>
    /\ contResult[2].kind = "raise"
    /\ stack = <<>>

====
